---- MODULE Spec2Model ----
(***************************************************************************)
(* Model of the two patch transformers of kustomize:                       *)
(*   plugin/builtin/patchstrategicmergetransformer  (multi-patch, "smt")   *)
(*   plugin/builtin/patchtransformer                (single-patch, "pt")   *)
(* Each plugin is a struct with Config and Transform; Transform mutates a  *)
(* ResMap (an ordered collection of resources) in place.                   *)
(***************************************************************************)
EXTENDS Integers, Sequences, FiniteSets, TLC

\* ------------------------------------------------------------------ bounds
\* Number of Transform passes run on one collection.
MaxPasses == 2
\* Number of Config calls made on one plugin value (reuse scenario only).
MaxConfigs == 2
\* Number of entries of the `paths` option of the multi-patch transformer.
MaxPaths == 2

\* ------------------------------------------------------------ field trees
\* A resource's Map() is its identity fields (kind, namespace, name) plus a
\* field tree of depth two: each top-level key holds nothing, a scalar, or a
\* nested map over SubKeys.  A patch may also hold the delete sentinel, or a
\* nested map that carries a malformed merge directive ("bad").
Keys == {"f", "g"}
SubKeys == {"x", "y"}
DEL == -1

EmptySub == [x \in SubKeys |-> 0]
NoneV == [k |-> "none", s |-> 0, m |-> EmptySub]
Scalar(n) == [k |-> "scalar", s |-> n, m |-> EmptySub]
MapV(sub) == [k |-> "map", s |-> 0, m |-> sub]
DelV == [k |-> "del", s |-> 0, m |-> EmptySub]
BadV(sub) == [k |-> "bad", s |-> 0, m |-> sub]
Sub(x, y) == [k \in SubKeys |-> IF k = "x" THEN x ELSE y]
Tree(f, g) == [k \in Keys |-> IF k = "f" THEN f ELSE g]
EmptyTree == Tree(NoneV, NoneV)

\* ---------------------------------------------------------------- resources
\* resource.Resource: the original name/namespace it was loaded with, and its
\* current map.  del is the top-level "$patch: delete" directive of a patch.
NoOrg == [ns |-> "", name |-> ""]
MkRes(org, kind, ns, name, tree, del) ==
    [org |-> org, kind |-> kind, ns |-> ns, name |-> name, tree |-> tree, del |-> del]
EmptyMapOf(r) == MkRes(r.org, "", "", "", EmptyTree, FALSE)
\* No patch object (a pass that applies JSON operations loads none).
NoPatch == MkRes(NoOrg, "", "", "", EmptyTree, FALSE)

CurId(r) == [kind |-> r.kind, ns |-> r.ns, name |-> r.name]
OrgId(r) == [kind |-> r.kind, ns |-> r.org.ns, name |-> r.org.name]
\* len(r.Map()) == 0
MapIsEmpty(r) ==
    /\ r.kind = "" /\ r.ns = "" /\ r.name = ""
    /\ \A k \in Keys : r.tree[k].k = "none"
    /\ ~r.del
DeepCopy(r) == r
SetName(r, n) == [r EXCEPT !.name = n]
SetNamespace(r, n) == [r EXCEPT !.ns = n]
SetGvk(r, g) == [r EXCEPT !.kind = g]

\* ----------------------------------------------------- strategic merge
\* Merge of one nested map into another, key by key.
MergeSub(t, p) ==
    [x \in SubKeys |-> IF p[x] = 0 THEN t[x] ELSE IF p[x] = DEL THEN 0 ELSE p[x]]
\* Merge of one top-level field: [ok, v].
MergeVal(t, p) ==
    CASE p.k = "none" -> [ok |-> TRUE, v |-> t]
      [] p.k = "del" -> [ok |-> TRUE, v |-> NoneV]
      [] p.k = "map" /\ t.k = "map" -> [ok |-> TRUE, v |-> MapV(MergeSub(t.m, p.m))]
      [] p.k = "bad" /\ t.k \in {"map", "bad"} -> [ok |-> FALSE, v |-> t]
      [] OTHER -> [ok |-> TRUE, v |-> p]
\* applyStrategicMerge(resource, patchContent): [ok, res].  The identity
\* fields are fields of the map like any other: a non-empty field of the
\* patch replaces the target's.
StrategicMerge(target, patch) ==
    IF patch.del THEN [ok |-> TRUE, res |-> EmptyMapOf(target)]
    ELSE IF \E k \in Keys : ~MergeVal(target.tree[k], patch.tree[k]).ok
    THEN [ok |-> FALSE, res |-> target]
    ELSE [ok |-> TRUE,
          res |-> [target EXCEPT
                     !.kind = IF patch.kind = "" THEN @ ELSE patch.kind,
                     !.ns = IF patch.ns = "" THEN @ ELSE patch.ns,
                     !.name = IF patch.name = "" THEN @ ELSE patch.name,
                     !.tree = [k \in Keys |-> MergeVal(@[k], patch.tree[k]).v]]]

\* ------------------------------------------------------ ResMap primitives
\* A ResMap is a sequence of resources.  GetById looks a resource up by its
\* original identity and demands exactly one match: [ok, i].
GetById(m, id) ==
    LET hits == {i \in DOMAIN m : OrgId(m[i]) = id}
    IN IF Cardinality(hits) = 1
       THEN [ok |-> TRUE, i |-> CHOOSE i \in hits : TRUE]
       ELSE [ok |-> FALSE, i |-> 0]

\* A selector field that is empty matches anything.
Matches(sel, r) ==
    /\ sel.kind \in {"", r.kind}
    /\ sel.ns \in {"", r.ns}
    /\ sel.name \in {"", r.name}

RECURSIVE SelectFrom(_, _, _)
SelectFrom(m, sel, i) ==
    IF i > Len(m) THEN <<>>
    ELSE (IF Matches(sel, m[i]) THEN <<i>> ELSE <<>>) \o SelectFrom(m, sel, i + 1)
\* Select: the positions, in collection order, of the resources the selector
\* matches.
Select(m, sel) == SelectFrom(m, sel, 1)

RECURSIVE Without(_, _)
Without(m, id) ==
    IF m = <<>> THEN <<>>
    ELSE (IF CurId(Head(m)) # id THEN <<Head(m)>> ELSE <<>>) \o Without(Tail(m), id)
\* Remove drops the resource whose current id is adios: [ok, m].
Remove(m, adios) ==
    LET tmp == Without(m, adios)
    IN IF Len(tmp) # Len(m) - 1 THEN [ok |-> FALSE, m |-> m]
       ELSE [ok |-> TRUE, m |-> tmp]

\* ------------------------------------------------------------ patch merger
\* MergeInto(out, patch): fold one patch into the consolidated patch of its
\* identity (the running result is the "target" of the strategic merge), or
\* start a new one, keeping the order of first appearance.  [ok, out]
MergeInto(out, patch) ==
    LET same == {i \in DOMAIN out : OrgId(out[i]) = OrgId(patch)}
    IN IF same = {} THEN [ok |-> TRUE, out |-> Append(out, patch)]
       ELSE LET i == CHOOSE j \in same : TRUE
                r == StrategicMerge(out[i], patch)
            IN [ok |-> r.ok, out |-> [out EXCEPT ![i] = r.res]]

RECURSIVE MergeFold(_, _)
MergeFold(out, patches) ==
    IF patches = <<>> THEN [ok |-> TRUE, out |-> out]
    ELSE LET r == MergeInto(out, Head(patches))
         IN IF r.ok THEN MergeFold(r.out, Tail(patches))
            ELSE [ok |-> FALSE, out |-> out]
\* ResmapFactory().MergePatches: one consolidated patch per identity.
MergePatches(patches) == MergeFold(<<>>, patches)

\* ------------------------------------------------------------- JSON patch
\* An operation addresses a top-level field (s = "") or a key of a nested
\* map.  Values are scalars.
Ptr(k, s) == [k |-> k, s |-> s]
NoPtr == Ptr("", "")
Op(op, path, from, value) == [op |-> op, path |-> path, from |-> from, value |-> value]

Exists(tree, ptr) ==
    IF ptr.s = "" THEN tree[ptr.k].k # "none"
    ELSE tree[ptr.k].k = "map" /\ tree[ptr.k].m[ptr.s] # 0
ValueAt(tree, ptr) ==
    IF ptr.s = "" THEN tree[ptr.k] ELSE Scalar(tree[ptr.k].m[ptr.s])
\* The parent of a pointer must be a map: the root always is.
CanPut(tree, ptr, val) ==
    ptr.s = "" \/ (tree[ptr.k].k = "map" /\ val.k = "scalar")
Put(tree, ptr, val) ==
    IF ptr.s = "" THEN [tree EXCEPT ![ptr.k] = val]
    ELSE [tree EXCEPT ![ptr.k].m[ptr.s] = val.s]
Drop(tree, ptr) ==
    IF ptr.s = "" THEN [tree EXCEPT ![ptr.k] = NoneV]
    ELSE [tree EXCEPT ![ptr.k].m[ptr.s] = 0]

\* One RFC 6902 operation: [ok, tree].
ApplyOp(tree, o) ==
    CASE o.op = "add" ->
           IF CanPut(tree, o.path, Scalar(o.value))
           THEN [ok |-> TRUE, tree |-> Put(tree, o.path, Scalar(o.value))]
           ELSE [ok |-> FALSE, tree |-> tree]
      [] o.op = "remove" ->
           IF Exists(tree, o.path) THEN [ok |-> TRUE, tree |-> Drop(tree, o.path)]
           ELSE [ok |-> FALSE, tree |-> tree]
      [] o.op = "replace" ->
           IF Exists(tree, o.path)
           THEN [ok |-> TRUE, tree |-> Put(tree, o.path, Scalar(o.value))]
           ELSE [ok |-> FALSE, tree |-> tree]
      [] o.op = "test" ->
           [ok |-> Exists(tree, o.path) /\ ValueAt(tree, o.path) = Scalar(o.value),
            tree |-> tree]
      [] o.op = "move" ->
           IF Exists(tree, o.from)
              /\ CanPut(Drop(tree, o.from), o.path, ValueAt(tree, o.from))
           THEN [ok |-> TRUE,
                 tree |-> Put(Drop(tree, o.from), o.path, ValueAt(tree, o.from))]
           ELSE [ok |-> FALSE, tree |-> tree]
      [] o.op = "copy" ->
           IF Exists(tree, o.from) /\ CanPut(tree, o.path, ValueAt(tree, o.from))
           THEN [ok |-> TRUE, tree |-> Put(tree, o.path, ValueAt(tree, o.from))]
           ELSE [ok |-> FALSE, tree |-> tree]

RECURSIVE ApplyOps(_, _)
\* jsonpatch.Patch.Apply on a working copy: [ok, tree]; on failure tree is
\* the working copy as the operations before the failing one left it.
ApplyOps(tree, ops) ==
    IF ops = <<>> THEN [ok |-> TRUE, tree |-> tree]
    ELSE LET r == ApplyOp(tree, Head(ops))
         IN IF r.ok THEN ApplyOps(r.tree, Tail(ops)) ELSE [ok |-> FALSE, tree |-> tree]

\* ------------------------------------------------------------ patch texts
\* A patch string, by what the parsers make of it:
\*   "sm"      YAML holding docs, one or more resource documents
\*   "json"    a JSON array of operations (first byte is '[')
\*   "yamlops" the same operations written as a YAML list
\*   "both"    accepted by the resource parser and by the operation decoder
\*   "junk"    not YAML at all
\*   "blank"   white space only
\*   "ref"     the name of a file, ref
\*   "empty"   the empty string
\* ys: the text contains the substring "yamlSupport".
MkText(form, docs, ops, ys, ref) ==
    [form |-> form, docs |-> docs, ops |-> ops, ys |-> ys, ref |-> ref]
NoText == MkText("empty", <<>>, <<>>, FALSE, "")
SMText(docs) == MkText("sm", docs, <<>>, FALSE, "")
JsonText(ops) == MkText("json", <<>>, ops, FALSE, "")
YamlOpsText(ops) == MkText("yamlops", <<>>, ops, FALSE, "")
BothText(docs, ops) == MkText("both", docs, ops, FALSE, "")
JunkText == MkText("junk", <<>>, <<>>, FALSE, "")
BlankText == MkText("blank", <<>>, <<>>, FALSE, "")
RefText(ref) == MkText("ref", <<>>, <<>>, FALSE, ref)
Mentioning(t) == [t EXCEPT !.ys = TRUE]

\* strings.TrimSpace
TrimSpace(t) == IF t.form = "blank" THEN NoText ELSE t

\* RF().SliceFromBytes: the resource documents of a text. [ok, res]
SliceFromBytes(t) ==
    CASE t.form \in {"sm", "both"} -> [ok |-> TRUE, res |-> t.docs]
      [] t.form \in {"empty", "blank"} -> [ok |-> TRUE, res |-> <<>>]
      [] OTHER -> [ok |-> FALSE, res |-> <<>>]
\* RF().FromBytes: exactly one resource document. [ok, val]; val is <<>> for
\* a nil pointer.
FromBytes(t) ==
    LET r == SliceFromBytes(t)
    IN IF r.ok /\ Len(r.res) = 1 THEN [ok |-> TRUE, val |-> <<r.res[1]>>]
       ELSE [ok |-> FALSE, val |-> <<>>]

YAMLToJSONOk(t) == t.form # "junk"
\* jsonpatch.DecodePatch: [ok, val]; val is <<>> for a nil patch.
DecodePatch(t) ==
    IF t.form \in {"json", "yamlops", "both"} THEN [ok |-> TRUE, val |-> <<t.ops>>]
    ELSE [ok |-> FALSE, val |-> <<>>]
\* jsonPatchFromBytes
JsonPatchFromBytes(t) ==
    IF t.form = "empty" THEN [ok |-> FALSE, val |-> <<>>]
    ELSE IF t.form # "json" /\ ~YAMLToJSONOk(t) THEN [ok |-> FALSE, val |-> <<>>]
    ELSE DecodePatch(t)

\* ------------------------------------------------------------- the loader
Id(kind, ns, name) == [kind |-> kind, ns |-> ns, name |-> name]
\* A strategic-merge patch document naming the resource id.
PatchDoc(id, tree, del) ==
    MkRes([ns |-> id.ns, name |-> id.name], id.kind, id.ns, id.name, tree, del)
idA == Id("D", "x", "a")
idB == Id("D", "x", "b")
idC == Id("S", "y", "c")
idQ == Id("D", "x", "q")

\* h.Loader().Load: the content of a file, when there is one. [ok, text]
Load(ref) ==
    CASE ref = "p.yaml" ->
           [ok |-> TRUE, text |-> SMText(<<PatchDoc(idA, Tree(Scalar(2), NoneV), FALSE)>>)]
      [] ref = "yamlSupport.yaml" ->
           [ok |-> TRUE, text |-> SMText(<<PatchDoc(idB, Tree(NoneV, Scalar(2)), FALSE)>>)]
      [] ref = "ops.yaml" ->
           [ok |-> TRUE,
            text |-> YamlOpsText(<<Op("replace", Ptr("f", ""), NoPtr, 2)>>)]
      [] OTHER -> [ok |-> FALSE, text |-> NoText]
RefMentions(ref) == ref = "yamlSupport.yaml"

\* ------------------------------------------- PatchTransformer: Config
NoSel == Id("", "", "")
\* Unmarshal into an existing struct sets the fields the document gives.
MergeSel(old, new) ==
    [f \in {"kind", "ns", "name"} |-> IF new[f] # "" THEN new[f] ELSE old[f]]

\* The zero value of the plugin struct.
PTZero ==
    [loadedPatch |-> <<>>, decodedPatch |-> <<>>, Path |-> "", Patch |-> NoText,
     Target |-> <<>>, YAMLSupport |-> FALSE]

\* A configuration document c: valid (it is YAML), and the options it sets:
\* path ("" when absent), patch (NoText when absent), target (<<>> when
\* absent), yamlSupport ("unset", "true" or "false").
PTInput(valid, path, patch, target, ys) ==
    [valid |-> valid, path |-> path, patch |-> patch, target |-> target,
     yamlSupport |-> ys]

\* yaml.Unmarshal(c, p)
PTUnmarshal(p, c) ==
    [p EXCEPT
       !.Path = IF c.path # "" THEN c.path ELSE @,
       !.Patch = IF c.patch # NoText THEN c.patch ELSE @,
       !.Target = IF c.target = <<>> THEN @
                  ELSE IF @ = <<>> THEN c.target
                  ELSE <<MergeSel(@[1], c.target[1])>>,
       !.YAMLSupport = IF c.yamlSupport = "unset" THEN @ ELSE c.yamlSupport = "true"]

\* strings.Contains(string(c), "yamlSupport")
PTContainsYamlSupport(c) ==
    \/ c.yamlSupport # "unset"
    \/ c.patch.ys
    \/ RefMentions(c.path)
    \/ (c.target # <<>> /\ c.target[1].name = "yamlSupport")

\* PTClassify with the two assignments exchanged.
PTClassifySwapped(p) ==
    LET sm == FromBytes(p.Patch)
        js == JsonPatchFromBytes(p.Patch)
    IN IF (sm.ok /\ js.ok) \/ (sm.val # <<>> /\ js.val # <<>>)
       THEN [p |-> p, err |-> "illegally qualifies as both an SM and JSON patch"]
       ELSE IF ~sm.ok /\ ~js.ok
       THEN [p |-> p, err |-> "unable to parse SM or JSON patch"]
       ELSE IF sm.ok THEN [p |-> [p EXCEPT !.decodedPatch = js.val], err |-> ""]
       ELSE [p |-> [p EXCEPT !.loadedPatch = sm.val], err |-> ""]

\* The tail of Config: classify p.Patch. [p, err]
PTClassify(p) ==
    LET sm == FromBytes(p.Patch)
        js == JsonPatchFromBytes(p.Patch)
    IN IF (sm.ok /\ js.ok) \/ (sm.val # <<>> /\ js.val # <<>>)
       THEN [p |-> p, err |-> "illegally qualifies as both an SM and JSON patch"]
       ELSE IF ~sm.ok /\ ~js.ok
       THEN [p |-> p, err |-> "unable to parse SM or JSON patch"]
       ELSE IF sm.ok THEN [p |-> [p EXCEPT !.loadedPatch = sm.val], err |-> ""]
       ELSE [p |-> [p EXCEPT !.decodedPatch = js.val], err |-> ""]

\* plugin.Config of the single-patch transformer: [p, err], p the plugin
\* struct as Config leaves it, err "" for nil.
PTConfig(p, c) ==
    IF ~c.valid THEN [p |-> p, err |-> "unmarshal"]
    ELSE
    LET p1 == PTUnmarshal(p, c)
        p2 == IF ~PTContainsYamlSupport(c) THEN [p1 EXCEPT !.YAMLSupport = TRUE] ELSE p1
        p3 == [p2 EXCEPT !.Patch = TrimSpace(@)]
    IN IF p3.Patch = NoText /\ p3.Path = ""
       THEN [p |-> p3, err |-> "must specify one of patch and path"]
       ELSE IF p3.Patch # NoText /\ p3.Path # ""
       THEN [p |-> p3, err |-> "patch and path can't be set at the same time"]
       ELSE IF p3.Path # "" /\ ~Load(p3.Path).ok
       THEN [p |-> p3, err |-> "load"]
       ELSE PTClassify(IF p3.Path # "" THEN [p3 EXCEPT !.Patch = Load(p3.Path).text]
                       ELSE p3)

\* ---------------------------------------- PatchTransformer: Transform
\* The result of a pass: the collection, the error ("" for nil), the
\* applicator invocations in order, and the loaded patch object as the pass
\* leaves it.
Pass(m, err, calls, patch) == [m |-> m, err |-> err, calls |-> calls, patch |-> patch]
\* One applicator invocation: the target it was given (its position, its
\* original name and its current id before the call), the patch object it
\* was given, and its outcome r: whether it succeeded and the target as it
\* left it.
Call(i, res, patch, r) ==
    [i |-> i, org |-> res.org, target |-> CurId(res), patch |-> patch,
     ok |-> r.ok, res |-> r.res]

Copy(r) == r
\* resource.Patch(patch): the legacy strategy. [ok, res]
LegacyPatch(resource, patch) == StrategicMerge(resource, patch)
\* filtersutil.ApplyToJSON(patchstrategicmerge.Filter{Patch: node}, resource):
\* the structured strategy. [ok, res]
ApplySMFilter(resource, patch) == StrategicMerge(resource, patch)

\* plugin.applySMPatch
PTapplySMPatch(p, resource, patch) ==
    IF ~p.YAMLSupport THEN LegacyPatch(resource, Copy(patch))
    ELSE ApplySMFilter(resource, patch)

\* PatchCopyFor without the deep copy: the setters write into the loaded
\* patch object itself.
PatchCopyForShared(patch, res) ==
    LET stamped == SetGvk(SetNamespace(SetName(patch, res.name), res.ns), res.kind)
    IN [copy |-> stamped, orig |-> stamped]

\* The body of the fan-out loop up to the call: a deep copy of the patch
\* with the identity of res written into it.  copy is the object handed to
\* the applicator, orig the loaded patch object afterwards.
PatchCopyFor(patch, res) ==
    LET patchCopy == DeepCopy(patch)
    IN [copy |-> SetGvk(SetNamespace(SetName(patchCopy, res.name), res.ns), res.kind),
        orig |-> patch]

RECURSIVE SMFanOut(_, _, _)
\* for _, res := range resources { ... } of transformStrategicMerge
SMFanOut(p, st, resources) ==
    IF resources = <<>> THEN st
    ELSE LET i == Head(resources)
             pc == PatchCopyFor(st.patch, st.m[i])
             r == PTapplySMPatch(p, st.m[i], pc.copy)
             calls == Append(st.calls, Call(i, st.m[i], pc.copy, r))
             m1 == [st.m EXCEPT ![i] = r.res]   \* res is patched in place
         IN IF ~r.ok THEN Pass(m1, "apply", calls, pc.orig)
            ELSE SMFanOut(p, Pass(m1, "", calls, pc.orig), Tail(resources))

\* plugin.transformStrategicMerge
TransformStrategicMerge(p, m, patch) ==
    IF p.Target = <<>>
    THEN LET g == GetById(m, OrgId(patch))
         IN IF ~g.ok THEN Pass(m, "lookup", <<>>, patch)
            ELSE LET r == PTapplySMPatch(p, m[g.i], patch)
                 IN Pass([m EXCEPT ![g.i] = r.res], IF r.ok THEN "" ELSE "apply",
                         <<Call(g.i, m[g.i], patch, r)>>, patch)
    ELSE SMFanOut(p, Pass(m, "", <<>>, patch), Select(m, p.Target[1]))

\* filtersutil.ApplyToJSON(patchjson6902.Filter{Patch: p.Patch}, resource):
\* the filter decodes the patch text itself and works on a node made from
\* the resource, which it writes back only on success. [ok, res]
ApplyJsonFilter(text, resource) ==
    LET d == DecodePatch(text)
        r == ApplyOps(resource.tree, d.val[1])
    IN IF ~d.ok THEN [ok |-> FALSE, res |-> resource]
       ELSE IF ~r.ok THEN [ok |-> FALSE, res |-> resource]
       ELSE [ok |-> TRUE, res |-> [resource EXCEPT !.tree = r.tree]]

\* applyJson6902Patch patching the resource itself instead of a copy: what
\* the operations before the failing one did stays.
ApplyJson6902PatchInPlace(p, resource, patch) ==
    LET r == ApplyOps(resource.tree, patch)
    IN [ok |-> r.ok, res |-> [resource EXCEPT !.tree = r.tree]]

\* plugin.applyJson6902Patch: [ok, res]
ApplyJson6902Patch(p, resource, patch) ==
    IF ~p.YAMLSupport
    THEN LET r == ApplyOps(resource.tree, patch)   \* on rawObj, the marshalled copy
         IN IF ~r.ok THEN [ok |-> FALSE, res |-> resource]
            ELSE [ok |-> TRUE, res |-> [resource EXCEPT !.tree = r.tree]]
    ELSE ApplyJsonFilter(p.Patch, resource)

RECURSIVE JsonFanOutContinue(_, _, _, _)
\* The fan-out loop without its early return: it remembers the error and
\* goes on to the remaining resources.
JsonFanOutContinue(p, st, resources, patch) ==
    IF resources = <<>> THEN st
    ELSE LET i == Head(resources)
             r == ApplyJson6902Patch(p, st.m[i], patch)
             calls == Append(st.calls, Call(i, st.m[i], st.patch, r))
             m1 == [st.m EXCEPT ![i] = r.res]
         IN JsonFanOutContinue(p, Pass(m1, IF r.ok THEN st.err ELSE "apply", calls, st.patch),
                               Tail(resources), patch)

RECURSIVE JsonFanOut(_, _, _, _)
\* for _, res := range resources { ... } of transformJson6902
JsonFanOut(p, st, resources, patch) ==
    IF resources = <<>> THEN st
    ELSE LET i == Head(resources)
             r == ApplyJson6902Patch(p, st.m[i], patch)
             calls == Append(st.calls, Call(i, st.m[i], st.patch, r))
             m1 == [st.m EXCEPT ![i] = r.res]   \* res is patched in place
         IN IF ~r.ok THEN Pass(m1, "apply", calls, st.patch)
            ELSE JsonFanOut(p, Pass(m1, "", calls, st.patch), Tail(resources), patch)

\* transformJson6902 taking a missing target for a selector of everything.
TransformJson6902AnyTarget(p, m, patch) ==
    JsonFanOut(p, Pass(m, "", <<>>, NoPatch),
               Select(m, IF p.Target = <<>> THEN NoSel ELSE p.Target[1]), patch)

\* plugin.transformJson6902
TransformJson6902(p, m, patch) ==
    IF p.Target = <<>> THEN Pass(m, "must specify a target", <<>>, NoPatch)
    ELSE JsonFanOut(p, Pass(m, "", <<>>, NoPatch), Select(m, p.Target[1]), patch)

\* plugin.Transform of the single-patch transformer
PTTransformOf(p, m) ==
    IF p.loadedPatch # <<>>
    THEN TransformStrategicMerge(p, m, p.loadedPatch[1])
    ELSE TransformJson6902(p, m, IF p.decodedPatch = <<>> THEN <<>> ELSE p.decodedPatch[1])

\* --------------------------- PatchStrategicMergeTransformer: Config
\* The zero value of the plugin struct.
SMTZero ==
    [loadedPatches |-> <<>>, Paths |-> <<>>, Patches |-> NoText, YAMLSupport |-> FALSE]

\* A configuration document c: valid, paths (<<>> when absent), patches
\* (NoText when absent), yamlSupport ("unset", "true" or "false").
SMTInput(valid, paths, patches, ys) ==
    [valid |-> valid, paths |-> paths, patches |-> patches, yamlSupport |-> ys]

\* yaml.Unmarshal(c, p)
SMTUnmarshal(p, c) ==
    [p EXCEPT
       !.Paths = IF c.paths # <<>> THEN c.paths ELSE @,
       !.Patches = IF c.patches # NoText THEN c.patches ELSE @,
       !.YAMLSupport = IF c.yamlSupport = "unset" THEN @ ELSE c.yamlSupport = "true"]

\* strings.Contains(string(c), "yamlSupport")
SMTContainsYamlSupport(c) ==
    \/ c.yamlSupport # "unset"
    \/ c.patches.ys
    \/ \E i \in DOMAIN c.paths : c.paths[i].ys \/ RefMentions(c.paths[i].ref)

\* RF().SliceFromPatches(loader, {onePath}): the documents of the file
\* onePath names. [ok, res]
SliceFromPatches(onePath) ==
    IF onePath.form = "ref" /\ Load(onePath.ref).ok
    THEN SliceFromBytes(Load(onePath.ref).text)
    ELSE [ok |-> FALSE, res |-> <<>>]

RECURSIVE LoadPaths(_, _)
\* for _, onePath := range p.Paths { ... }: [ok, loaded]
LoadPaths(loaded, paths) ==
    IF paths = <<>> THEN [ok |-> TRUE, loaded |-> loaded]
    ELSE LET lit == SliceFromBytes(Head(paths))
             file == SliceFromPatches(Head(paths))
         IN IF lit.ok THEN LoadPaths(loaded \o lit.res, Tail(paths))
            ELSE IF ~file.ok THEN [ok |-> FALSE, loaded |-> loaded]
            ELSE LoadPaths(loaded \o file.res, Tail(paths))

\* plugin.Config of the multi-patch transformer: [p, err]
SMTConfig(p, c) ==
    IF ~c.valid THEN [p |-> p, err |-> "unmarshal"]
    ELSE
    LET p1 == SMTUnmarshal(p, c)
        p2 == IF ~SMTContainsYamlSupport(c) THEN [p1 EXCEPT !.YAMLSupport = TRUE] ELSE p1
        lp == LoadPaths(p2.loadedPatches, p2.Paths)
        p3 == [p2 EXCEPT !.loadedPatches = lp.loaded]
        inl == SliceFromBytes(p3.Patches)
        p4 == IF p3.Patches # NoText
              THEN [p3 EXCEPT !.loadedPatches = @ \o inl.res] ELSE p3
    IN IF Len(p2.Paths) = 0 /\ p2.Patches = NoText
       THEN [p |-> p2, err |-> "empty file path and empty patch content"]
       ELSE IF ~lp.ok THEN [p |-> p3, err |-> "load"]
       ELSE IF p3.Patches # NoText /\ ~inl.ok THEN [p |-> p3, err |-> "parse"]
       ELSE IF Len(p4.loadedPatches) = 0
       THEN [p |-> p4, err |-> "patch appears to be empty"]
       ELSE [p |-> p4, err |-> ""]

\* ------------------------ PatchStrategicMergeTransformer: Transform
\* The patch object handed to the applicator for target: the structured
\* strategy overwrites the identity of its copy with the target's, the
\* legacy strategy hands over a plain copy.
SMTPatchFor(p, patch, target) ==
    IF ~p.YAMLSupport THEN Copy(patch)
    ELSE LET patchCopy == DeepCopy(patch)
         IN SetGvk(SetNamespace(SetName(patchCopy, target.name), target.ns), target.kind)

\* The strategy's applicator. [ok, res]
SMTApply(p, target, patch) ==
    IF ~p.YAMLSupport THEN LegacyPatch(target, patch) ELSE ApplySMFilter(target, patch)

\* The removal that follows an application that emptied the target. [ok, m]
SMTRemoveIfEmpty(m, i) ==
    IF MapIsEmpty(m[i]) THEN Remove(m, CurId(m[i])) ELSE [ok |-> TRUE, m |-> m]

RECURSIVE SMTLoop(_, _, _)
\* for _, patch := range patches.Resources() { ... }
SMTLoop(p, st, patches) ==
    IF patches = <<>> THEN st
    ELSE LET patch == Head(patches)
             g == GetById(st.m, OrgId(patch))
             target == st.m[g.i]
             given == SMTPatchFor(p, patch, target)
             r == SMTApply(p, target, given)
             calls == Append(st.calls, Call(g.i, target, given, r))
             m1 == [st.m EXCEPT ![g.i] = r.res]
             rm == SMTRemoveIfEmpty(m1, g.i)
         IN IF ~g.ok THEN Pass(st.m, "lookup", st.calls, st.patch)
            ELSE IF ~r.ok THEN Pass(m1, "apply", calls, st.patch)
            ELSE IF ~rm.ok THEN Pass(m1, "remove", calls, st.patch)
            ELSE SMTLoop(p, Pass(rm.m, "", calls, st.patch), Tail(patches))

\* plugin.Transform of the multi-patch transformer
SMTTransformOf(p, m) ==
    LET patches == MergePatches(p.loadedPatches)
    IN IF ~patches.ok THEN Pass(m, "merge", <<>>, NoPatch)
       ELSE SMTLoop(p, Pass(m, "", <<>>, NoPatch), patches.out)

\* ------------------------------------------------------------- the inputs
\* The collections a pass starts from: each of the resources a, b, c is
\* absent or present in one of its variants; a and c also come renamed (by
\* an earlier prefix/namespace transformer), so that their current identity
\* differs from the original one.
ResOf(org, cur, tree) ==
    MkRes([ns |-> org.ns, name |-> org.name], cur.kind, cur.ns, cur.name, tree, FALSE)
VariantsA ==
    {ResOf(idA, idA, Tree(Scalar(1), NoneV)),
     ResOf(idA, Id("D", "z", "p-a"), Tree(MapV(Sub(1, 0)), Scalar(2)))}
VariantsB ==
    {ResOf(idB, idB, Tree(MapV(Sub(1, 1)), NoneV)),
     ResOf(idB, idB, Tree(NoneV, Scalar(1)))}
VariantsC ==
    {ResOf(idC, idC, Tree(Scalar(1), Scalar(1))),
     ResOf(idC, Id("S", "z", "p-c"), Tree(MapV(Sub(0, 1)), NoneV))}
Opt(S) == {<<>>} \cup {<<r>> : r \in S}
Colls == {a \o b \o c : a \in Opt(VariantsA), b \in Opt(VariantsB), c \in Opt(VariantsC)}

PatchTrees ==
    {Tree(Scalar(2), NoneV), Tree(DelV, NoneV), Tree(MapV(Sub(DEL, 2)), NoneV),
     Tree(BadV(Sub(1, 0)), NoneV), Tree(NoneV, Scalar(1)), EmptyTree}
DeleteA == PatchDoc(idA, EmptyTree, TRUE)
DeleteB == PatchDoc(idB, EmptyTree, TRUE)
DocsA == {PatchDoc(idA, t, FALSE) : t \in PatchTrees} \cup {DeleteA}
DocQ == PatchDoc(idQ, Tree(Scalar(2), NoneV), FALSE)
TwoDocs == SMText(<<PatchDoc(idA, Tree(Scalar(2), NoneV), FALSE), DeleteB>>)

OpsPool ==
    {<<Op("replace", Ptr("f", ""), NoPtr, 2)>>,
     <<Op("remove", Ptr("g", ""), NoPtr, 0)>>,
     <<Op("add", Ptr("f", "x"), NoPtr, 2), Op("remove", Ptr("g", ""), NoPtr, 0)>>,
     <<Op("test", Ptr("f", ""), NoPtr, 1), Op("replace", Ptr("f", ""), NoPtr, 2)>>,
     <<Op("move", Ptr("g", ""), Ptr("f", "x"), 0)>>,
     <<Op("add", Ptr("g", ""), NoPtr, 2), Op("copy", Ptr("f", "y"), Ptr("g", ""), 0)>>,
     <<>>}

YsOptions == {"unset", "true", "false"}
Refs == {"p.yaml", "yamlSupport.yaml", "ops.yaml", "missing.yaml"}

PTTexts ==
    {SMText(<<d>>) : d \in DocsA \cup {DocQ}}
    \cup {JsonText(o) : o \in OpsPool}
    \cup {TwoDocs, JunkText, BlankText,
          YamlOpsText(<<Op("remove", Ptr("f", "x"), NoPtr, 0)>>),
          BothText(<<DocQ>>, <<>>),
          Mentioning(SMText(<<PatchDoc(idA, Tree(NoneV, Scalar(2)), FALSE)>>))}
PTTargets ==
    {<<>>, <<NoSel>>, <<Id("D", "", "")>>, <<Id("", "", "a")>>, <<Id("", "nowhere", "")>>}
PTInputs ==
    {PTInput(TRUE, "", t, tg, ys) : t \in PTTexts, tg \in PTTargets, ys \in YsOptions}
    \cup {PTInput(TRUE, r, NoText, tg, ys) : r \in Refs, tg \in PTTargets, ys \in YsOptions}
    \cup {PTInput(TRUE, "p.yaml", JunkText, <<>>, "unset"),
          PTInput(TRUE, "", NoText, <<NoSel>>, "unset"),
          PTInput(FALSE, "", NoText, <<>>, "unset")}

SMTEntries ==
    {SMText(<<d>>) :
        d \in (DocsA \ {PatchDoc(idA, EmptyTree, FALSE),
                        PatchDoc(idA, Tree(NoneV, Scalar(1)), FALSE)}) \cup {DocQ}}
    \cup {TwoDocs, JunkText, BlankText, RefText("p.yaml"), RefText("yamlSupport.yaml")}
RECURSIVE SeqsUpTo(_, _)
SeqsUpTo(S, n) ==
    IF n = 0 THEN {<<>>}
    ELSE SeqsUpTo(S, n - 1) \cup {Append(q, e) : q \in SeqsUpTo(S, n - 1), e \in S}
SMTInline ==
    {NoText, JunkText, Mentioning(SMText(<<PatchDoc(idB, Tree(NoneV, Scalar(2)), FALSE)>>))}
SMTInputs ==
    {SMTInput(TRUE, ps, t, ys) :
        ps \in SeqsUpTo(SMTEntries, MaxPaths), t \in SMTInline, ys \in YsOptions}
    \cup {SMTInput(FALSE, <<>>, NoText, "unset")}

\* The documents of the runs that configure one plugin value repeatedly.
PTReuseInputs ==
    {PTInput(TRUE, "", SMText(<<PatchDoc(idA, Tree(Scalar(2), NoneV), FALSE)>>), <<>>, "unset"),
     PTInput(TRUE, "", SMText(<<DeleteA>>), <<Id("D", "", "")>>, "false"),
     PTInput(TRUE, "", JsonText(<<Op("replace", Ptr("f", ""), NoPtr, 2)>>),
             <<Id("", "", "a")>>, "unset"),
     PTInput(TRUE, "", JsonText(<<Op("remove", Ptr("g", ""), NoPtr, 0)>>), <<>>, "true"),
     PTInput(TRUE, "p.yaml", NoText, <<>>, "unset"),
     PTInput(TRUE, "ops.yaml", NoText, <<NoSel>>, "unset"),
     PTInput(TRUE, "", JunkText, <<>>, "unset"),
     PTInput(FALSE, "", NoText, <<>>, "unset")}
SMTReuseInputs ==
    {SMTInput(TRUE, ps, t, ys) :
        ps \in {<<>>, <<SMText(<<PatchDoc(idA, Tree(Scalar(2), NoneV), FALSE)>>)>>,
                <<SMText(<<DeleteB>>)>>, <<RefText("p.yaml"), JunkText>>},
        t \in {NoText, SMText(<<PatchDoc(idB, Tree(NoneV, Scalar(2)), FALSE)>>)},
        ys \in {"unset", "false"}}
    \cup {SMTInput(FALSE, <<>>, NoText, "unset")}

\* ---------------------------------------------------------------- state
VARIABLES
    which,      \* the transformer this run is about: "smt" or "pt"
    smt,        \* KustomizePlugin of PatchStrategicMergeTransformer
    pt,         \* KustomizePlugin of PatchTransformer
    m,          \* the ResMap
    m0,         \* the ResMap as the last pass found it
    cfg,        \* <<c>>: the document of the last Config call
    err,        \* what the last call returned ("" for nil)
    calls,      \* the applicator invocations of the last pass
    nconf,      \* Config calls made on the plugin value
    passes,     \* Transform passes made
    phase       \* "new", "configured", "failed" (Config returned an error), "transformed"
vars == <<which, smt, pt, m, m0, cfg, err, calls, nconf, passes, phase>>

Init ==
    /\ which \in {"smt", "pt"}
    /\ smt = SMTZero
    /\ pt = PTZero
    /\ m \in Colls
    /\ m0 = m
    /\ cfg = <<>>
    /\ err = ""
    /\ calls = <<>>
    /\ nconf = 0
    /\ passes = 0
    /\ phase = "new"

Configured(r, c) ==
    /\ cfg' = <<c>>
    /\ err' = r.err
    /\ nconf' = nconf + 1
    /\ phase' = IF r.err = "" THEN "configured" ELSE "failed"
    /\ UNCHANGED <<which, m, m0, calls, passes>>

\* Config on a plugin value just constructed.
PTConfigure ==
    /\ which = "pt" /\ phase = "new"
    /\ \E c \in PTInputs :
          /\ pt' = PTConfig(pt, c).p
          /\ Configured(PTConfig(pt, c), c)
    /\ UNCHANGED smt

SMTConfigure ==
    /\ which = "smt" /\ phase = "new"
    /\ \E c \in SMTInputs :
          /\ smt' = SMTConfig(smt, c).p
          /\ Configured(SMTConfig(smt, c), c)
    /\ UNCHANGED pt

\* Config on the package-level plugin value, whatever earlier calls left in it.
PTReconfigure ==
    /\ which = "pt" /\ nconf < MaxConfigs
    /\ \E c \in PTReuseInputs :
          /\ pt' = PTConfig(pt, c).p
          /\ Configured(PTConfig(pt, c), c)
    /\ UNCHANGED smt

SMTReconfigure ==
    /\ which = "smt" /\ nconf < MaxConfigs
    /\ \E c \in SMTReuseInputs :
          /\ smt' = SMTConfig(smt, c).p
          /\ Configured(SMTConfig(smt, c), c)
    /\ UNCHANGED pt

Transformed(r) ==
    /\ m' = r.m
    /\ m0' = m
    /\ err' = r.err
    /\ calls' = r.calls
    /\ passes' = passes + 1
    /\ phase' = "transformed"
    /\ UNCHANGED <<which, cfg, nconf>>

PTTransform ==
    /\ which = "pt" /\ phase \in {"configured", "transformed"} /\ passes < MaxPasses
    /\ Transformed(PTTransformOf(pt, m))
    /\ pt' = IF pt.loadedPatch # <<>>
             THEN [pt EXCEPT !.loadedPatch = <<PTTransformOf(pt, m).patch>>] ELSE pt
    /\ UNCHANGED smt

SMTTransform ==
    /\ which = "smt" /\ phase \in {"configured", "transformed"} /\ passes < MaxPasses
    /\ Transformed(SMTTransformOf(smt, m))
    /\ UNCHANGED <<smt, pt>>

Next ==
    \/ PTConfigure
    \/ PTTransform
    \/ SMTConfigure
    \/ SMTTransform

NextReuse ==
    \/ PTReconfigure
    \/ PTTransform
    \/ SMTReconfigure
    \/ SMTTransform

\* One Config per plugin value, then passes.
Spec == Init /\ [][Next]_vars
\* The same plugin value configured more than once.
SpecReuse == Init /\ [][NextReuse]_vars

\* ================================================================ claims
Range(q) == {q[i] : i \in DOMAIN q}
ResByOrg(q, org) == {r \in Range(q) : r.org = org}
\* The invocations of the last pass that left their target without fields.
EmptiedCalls == {j \in DOMAIN calls : calls[j].ok /\ MapIsEmpty(calls[j].res)}
Untouched(i) == \A j \in DOMAIN calls : calls[j].org # m0[i].org

\* C1: cascading deletion. After any Transform pass of either transformer,
\* a target that a strategic-merge patch left without fields is absent from
\* the collection, the collection is smaller by one for each such target,
\* and the resources no patch was applied to are as they were.
C1_CascadingDeletion ==
    phase = "transformed" =>
        /\ \A j \in EmptiedCalls : ResByOrg(m, calls[j].org) = {}
        /\ Len(m) = Len(m0) - Cardinality(EmptiedCalls)
        /\ \A i \in DOMAIN m0 : Untouched(i) => m0[i] \in Range(m)

\* C1 restricted to the multi-patch transformer, whose Transform removes
\* the emptied target.
C1_CascadingDeletionSMT == which = "smt" => C1_CascadingDeletion
\* A pass of the multi-patch transformer that emptied a target, with
\* another resource in the collection.
C1_WitnessSMT ==
    which = "smt" /\ phase = "transformed" /\ EmptiedCalls # {} /\ Len(m) >= 1

\* The state after Config of a freshly made single-patch plugin on cfg.
PTFresh == PTConfig(PTZero, cfg[1]).p
SMTFresh == SMTConfig(SMTZero, cfg[1]).p

\* A pass of the single-patch transformer that fanned a strategic-merge
\* patch out through its target selector.
SMFanOutPass ==
    which = "pt" /\ phase = "transformed" /\ pt.loadedPatch # <<>> /\ pt.Target # <<>>
Selected == Select(m0, pt.Target[1])
\* The j-th invocation was on the j-th selected resource, with a copy of the
\* loaded patch that carries that resource's name, namespace and kind and
\* the loaded patch's content, and it left the resource its own identity.
StampedCall(j) ==
    LET c == calls[j]
        t == m0[Selected[j]]
        patch == PTFresh.loadedPatch[1]
    IN /\ c.i = Selected[j]
       /\ c.target = CurId(t)
       /\ CurId(c.patch) = CurId(t)
       /\ c.patch.tree = patch.tree /\ c.patch.del = patch.del
       /\ c.patch.org = patch.org
       /\ (c.ok /\ ~patch.del => CurId(c.res) = CurId(t))
\* The original statement: exactly k invocations for k matched resources.
C2_FanOutExactlyK ==
    SMFanOutPass =>
        /\ Len(calls) = Len(Selected)
        /\ \A j \in DOMAIN calls : StampedCall(j)
        /\ pt.loadedPatch = PTFresh.loadedPatch

\* C2 (amended): through a target selector that matches k resources, the
\* applicator is invoked on the matched resources in collection order until
\* an invocation fails: exactly k times when none fails, and j <= k times
\* when the j-th fails.  Every invocation gets its own deep copy of the
\* patch stamped with the name, namespace and kind of its target, and the
\* loaded patch object is never changed.
C2_FanOutIdentity ==
    SMFanOutPass =>
        /\ Len(calls) <= Len(Selected)
        /\ (err = "" => Len(calls) = Len(Selected))
        /\ (err # "" => calls # <<>> /\ ~calls[Len(calls)].ok)
        /\ \A j \in DOMAIN calls : j < Len(calls) => calls[j].ok
        /\ \A j \in DOMAIN calls : StampedCall(j)
        /\ pt.loadedPatch = PTFresh.loadedPatch
\* A fan-out to three resources, none of which has the identity the patch
\* was written with.
C2_Witness ==
    /\ SMFanOutPass /\ err = "" /\ Len(calls) = 3
    /\ \A j \in DOMAIN calls : calls[j].target # CurId(PTFresh.loadedPatch[1])
    /\ Cardinality({calls[j].target : j \in DOMAIN calls}) = 3

\* The patch text Config classifies, for a document that gets that far: the
\* inline patch trimmed, or the content of the file path names.
ReachesClassify(c) ==
    /\ c.valid
    /\ (TrimSpace(c.patch) = NoText) # (c.path = "")
    /\ (c.path # "" => Load(c.path).ok)
EffectiveText(c) == IF c.path # "" THEN Load(c.path).text ELSE TrimSpace(c.patch)

\* C3: classification is exactly-one. Config of the single-patch
\* transformer fails with the ambiguity error when both parses of the patch
\* content succeed, with the unparseable error when neither does, and
\* otherwise succeeds with exactly one of loadedPatch and decodedPatch set,
\* the one of the parse that succeeded, which is the strategy Transform
\* then dispatches to.
C3_ClassificationExactlyOne ==
    (which = "pt" /\ phase \in {"configured", "failed"} /\ ReachesClassify(cfg[1])) =>
        LET t == EffectiveText(cfg[1])
            sm == FromBytes(t)
            js == JsonPatchFromBytes(t)
        IN /\ (sm.ok /\ js.ok =>
                 err = "illegally qualifies as both an SM and JSON patch")
           /\ (~sm.ok /\ ~js.ok => err = "unable to parse SM or JSON patch")
           /\ (sm.ok # js.ok =>
                 /\ err = ""
                 /\ (pt.loadedPatch # <<>>) # (pt.decodedPatch # <<>>)
                 /\ (sm.ok => pt.loadedPatch = sm.val
                              /\ PTTransformOf(pt, m)
                                   = TransformStrategicMerge(pt, m, sm.val[1]))
                 /\ (js.ok => pt.decodedPatch = js.val
                              /\ PTTransformOf(pt, m)
                                   = TransformJson6902(pt, m, js.val[1])))
\* Config has classified a patch text as a JSON patch.
C3_Witness ==
    /\ which = "pt" /\ phase = "configured" /\ ReachesClassify(cfg[1])
    /\ JsonPatchFromBytes(EffectiveText(cfg[1])).ok
    /\ pt.decodedPatch # <<>> /\ pt.loadedPatch = <<>>
\* Config has classified one as a strategic-merge patch, has refused one as
\* ambiguous, and one as unparseable.
C3_WitnessSM ==
    /\ which = "pt" /\ phase = "configured" /\ ReachesClassify(cfg[1])
    /\ FromBytes(EffectiveText(cfg[1])).ok
    /\ pt.loadedPatch # <<>> /\ pt.decodedPatch = <<>>
C3_WitnessAmbiguous ==
    /\ which = "pt" /\ phase = "failed"
    /\ err = "illegally qualifies as both an SM and JSON patch"
C3_WitnessUnparseable ==
    /\ which = "pt" /\ phase = "failed" /\ err = "unable to parse SM or JSON patch"

\* C4: strategy equivalence. A pass gives the same collection and the same
\* result whichever of the two strategies is selected.
C4_StrategyEquivalence ==
    phase = "transformed" =>
        /\ which = "smt" =>
             LET other == SMTTransformOf([smt EXCEPT !.YAMLSupport = ~@], m0)
             IN other.m = m /\ other.err = err
        /\ which = "pt" =>
             LET other == PTTransformOf([pt EXCEPT !.YAMLSupport = ~@], m0)
             IN other.m = m /\ other.err = err
\* C4 restricted to the single-patch transformer.
C4_StrategyEquivalencePT == which = "pt" => C4_StrategyEquivalence

\* A pass of the single-patch transformer that applied JSON operations
\* through its target selector.
JsonFanOutPass ==
    which = "pt" /\ phase = "transformed" /\ pt.loadedPatch = <<>> /\ pt.Target # <<>>
\* What the decoded operations do to the tree the j-th target had.
OpsOn(j) == ApplyOps(m0[calls[j].i].tree, pt.decodedPatch[1])

\* C5: JSON-Patch atomicity per resource. When an operation of the sequence
\* fails on a resource, the application returns an error and the resource is
\* exactly what it was before the call, whatever earlier operations of the
\* sequence did to the working copy.
C5_JsonPatchAtomic ==
    JsonFanOutPass =>
        \A j \in DOMAIN calls :
            ~OpsOn(j).ok =>
                /\ ~calls[j].ok /\ err = "apply"
                /\ calls[j].res = m0[calls[j].i]
                /\ m[calls[j].i] = m0[calls[j].i]
\* An application failed after an earlier operation of the same sequence
\* had changed the working copy.
C5_Witness ==
    /\ JsonFanOutPass
    /\ \E j \in DOMAIN calls : ~OpsOn(j).ok /\ OpsOn(j).tree # m0[calls[j].i].tree

\* The pairs of the last pass of the multi-patch transformer: its
\* consolidated patches, in order.
SMTPairs == MergePatches(smt.loadedPatches)
\* Every resource the pass found is in the collection as the successful
\* invocation on it left it (gone, when the multi-patch transformer found
\* it emptied), or as it was when no invocation was made on it; and nothing
\* else is in the collection.
KeptMutations ==
    /\ \A i \in DOMAIN m0 :
          LET org == m0[i].org
              js == {j \in DOMAIN calls : calls[j].org = org}
          IN /\ Cardinality(js) <= 1
             /\ js = {} => ResByOrg(m, org) = {m0[i]}
             /\ \A j \in js :
                   calls[j].ok =>
                       ResByOrg(m, org) =
                           IF which = "smt" /\ MapIsEmpty(calls[j].res) THEN {}
                           ELSE {calls[j].res}
    /\ \A r \in Range(m) : \E i \in DOMAIN m0 : m0[i].org = r.org
    /\ Len(m) = Cardinality({r.org : r \in Range(m)})
\* The invocations are those of a prefix of the pairs, in order, and only
\* the last one may have failed.
PrefixOfPairs ==
    /\ \A j \in DOMAIN calls : j < Len(calls) => calls[j].ok
    /\ (which = "pt" /\ pt.Target # <<>>) =>
          /\ Len(calls) <= Len(Selected)
          /\ \A j \in DOMAIN calls : calls[j].i = Selected[j]
    /\ (which = "smt" /\ SMTPairs.ok) =>
          /\ Len(calls) <= Len(SMTPairs.out)
          /\ \A j \in DOMAIN calls : calls[j].org = SMTPairs.out[j].org
\* The error is that of the pair after the prefix, or of its last pair.
FirstFailure ==
    /\ err = "apply" => calls # <<>> /\ ~calls[Len(calls)].ok
    /\ err \in {"lookup", "remove"} => \A j \in DOMAIN calls : calls[j].ok
    /\ (which = "smt" /\ err = "lookup") =>
          /\ Len(calls) < Len(SMTPairs.out)
          /\ ~GetById(m, OrgId(SMTPairs.out[Len(calls) + 1])).ok
\* A pass that returned nil went through all its pairs.
AllPairs ==
    /\ \A j \in DOMAIN calls : calls[j].ok
    /\ (which = "pt" /\ pt.Target # <<>>) => Len(calls) = Len(Selected)
    /\ which = "smt" => SMTPairs.ok /\ Len(calls) = Len(SMTPairs.out)

MutatedBy(j) == calls[j].ok /\ calls[j].res # m0[calls[j].i]
C6_WitnessSMFanOut ==
    SMFanOutPass /\ err = "apply" /\ Len(calls) >= 2 /\ MutatedBy(1)
C6_WitnessSMT ==
    /\ which = "smt" /\ phase = "transformed" /\ err = "lookup"
    /\ calls # <<>> /\ MutatedBy(1)

\* A delete directive of the patch touches the top-level field k: the whole
\* resource is deleted, the field is, or a key of its nested map is.
DeleteTouches(patch, k) ==
    \/ patch.del
    \/ patch.tree[k].k = "del"
    \/ (patch.tree[k].k \in {"map", "bad"} /\ \E x \in SubKeys : patch.tree[k].m[x] = DEL)
\* The patch sets the field k, or a key of its nested map.
SetTouches(patch, k) ==
    \/ patch.tree[k].k = "scalar"
    \/ (patch.tree[k].k \in {"map", "bad"} /\ \E x \in SubKeys : patch.tree[k].m[x] > 0)
NoDeleteThenSet(patches) ==
    \A i, j \in DOMAIN patches :
        i < j => \A k \in Keys : ~(DeleteTouches(patches[i], k) /\ SetTouches(patches[j], k))
SameTarget(patches) ==
    \A i, j \in DOMAIN patches : OrgId(patches[i]) = OrgId(patches[j])
\* The loaded patches applied to the collection one after another, unmerged.
Sequentially == SMTLoop(smt, Pass(m0, "", <<>>, NoPatch), smt.loadedPatches)

\* C7: merge-then-apply equivalence. For loaded patches that share one
\* target and in which no field is touched by a delete directive and by a
\* later non-delete directive, the pass of the multi-patch transformer
\* leaves the collection the patches applied one after another leave.
C7_MergeThenApply ==
    (/\ which = "smt" /\ phase = "transformed"
     /\ SameTarget(smt.loadedPatches) /\ NoDeleteThenSet(smt.loadedPatches)) =>
        m = Sequentially.m

\* C8: target-resolution failure leaves the collection untouched. Without
\* a target selector, a pass of the single-patch transformer fails with the
\* target-required error for a JSON patch, and with the lookup error for a
\* strategic-merge patch whose identity no resource has; the collection is
\* as it was.
C8_ResolutionFailureFrame ==
    (which = "pt" /\ phase = "transformed" /\ pt.Target = <<>>) =>
        /\ pt.loadedPatch = <<>> =>
             err = "must specify a target" /\ m = m0 /\ calls = <<>>
        /\ (/\ pt.loadedPatch # <<>>
            /\ \A r \in Range(m0) : OrgId(r) # OrgId(pt.loadedPatch[1])) =>
             err = "lookup" /\ m = m0 /\ calls = <<>>
\* A JSON patch without a target met a collection its operations apply to.
C8_Witness ==
    /\ which = "pt" /\ phase = "transformed" /\ pt.Target = <<>>
    /\ pt.loadedPatch = <<>> /\ pt.decodedPatch # <<>>
    /\ \E i \in DOMAIN m0 :
          LET r == ApplyOps(m0[i].tree, pt.decodedPatch[1])
          IN r.ok /\ r.tree # m0[i].tree
\* A strategic-merge patch without a target met a collection that holds
\* resources, none with its identity.
C8_WitnessLookup ==
    /\ which = "pt" /\ phase = "transformed" /\ pt.Target = <<>>
    /\ pt.loadedPatch # <<>> /\ m0 # <<>>
    /\ \A r \in Range(m0) : OrgId(r) # OrgId(pt.loadedPatch[1])

\* C9: default strategy. After a successful Config of either transformer
\* the structured strategy is selected unless the document sets the
\* yamlSupport option to false.
C9_DefaultStrategy ==
    (phase = "configured" /\ cfg[1].yamlSupport # "false") =>
        IF which = "pt" THEN pt.YAMLSupport ELSE smt.YAMLSupport

\* C10: no state carried across configuration loads. Config returns, and
\* the following pass does, what they would on a plugin value just made,
\* whatever earlier Config calls on the same value were given.
C10_NoCarriedState ==
    phase \in {"configured", "failed"} =>
        /\ which = "pt" =>
             /\ err = PTConfig(PTZero, cfg[1]).err
             /\ err = "" => PTTransformOf(pt, m) = PTTransformOf(PTFresh, m)
        /\ which = "smt" =>
             /\ err = SMTConfig(SMTZero, cfg[1]).err
             /\ err = "" => SMTTransformOf(smt, m) = SMTTransformOf(SMTFresh, m)
====
